---- MODULE Spec2Model ----
(***************************************************************************)
(* SchoolSearcher (src/nceschools/school_searcher.py): resolution of a     *)
(* school name plus optional city/state/zip hints to an NCES identifier,   *)
(* over the paginated listings of the Public and Private directories.      *)
(*                                                                         *)
(* The remote site is the environment: every successful fetch returns a    *)
(* document drawn from a bounded set, every fetch may also answer with a   *)
(* status other than 200.  Texts are sequences of tokens; the empty text   *)
(* stands for every falsy Python value (None and ""), which the code never *)
(* tells apart (it only tests truthiness).                                 *)
(***************************************************************************)
EXTENDS Integers, Sequences, FiniteSets, TLC

VARIABLES school_type, initType, pc, args, startType, page, pageNo,
          scanned, early, next_page_url, school_url, result, flips, log,
          att, cur, endless, listed, loop, gi, le

\* what the steps of get_nces_id leave alone: the shape of the site's
\* listings, and the frames of the for loop, of get_int and of
\* extract_school_details when these are followed on their own
others == <<endless, listed, loop, gi, le>>

\* the searcher and its calls
searcher == <<school_type, initType, pc, args, startType, page, pageNo,
              scanned, early, next_page_url, school_url, result, flips, log,
              att, cur>>

vars == <<school_type, initType, pc, args, startType, page, pageNo,
          scanned, early, next_page_url, school_url, result, flips, log,
          att, cur, endless, listed, loop, gi, le>>

----------------------------------------------------------------------------
(* Bounds of the model *)

\* rows of one listing page
MaxRows == 2

\* pages of one listing (the last one carries no "Next >>" link)
MaxPages == 2

\* listing pages one attempt is followed through when the listings never end
MaxFetches == 3

\* entries of the page the for loop is followed over
MaxEntries == 3

\* characters of the text given to get_int
MaxChars == 4

\* most <td>s in the row of the lunch table
MaxColumns == 3

----------------------------------------------------------------------------
(* Values *)

Types == {"public", "private"}

\* callers that hold a reference to the one SchoolSearcher instance
Callers == {"a", "b"}

\* response.status_code of a fetch
Statuses == {200, 404}

\* the falsy text (None or "")
None == <<>>

Truthy(x) == x # None

\* str.lower() and str.upper() on the words of the model
LowerWord(w) ==
    CASE w \in {"Rome", "ROME", "rome"} -> "rome"
      [] w \in {"Paris", "PARIS", "paris"} -> "paris"
      [] w \in {"GA", "ga", "Ga"} -> "ga"
      [] w \in {"VA", "va", "Va"} -> "va"
      [] OTHER -> w

UpperWord(w) ==
    CASE w \in {"Rome", "ROME", "rome"} -> "ROME"
      [] w \in {"Paris", "PARIS", "paris"} -> "PARIS"
      [] w \in {"GA", "ga", "Ga"} -> "GA"
      [] w \in {"VA", "va", "Va"} -> "VA"
      [] OTHER -> w

Lower(t) == [i \in 1..Len(t) |-> LowerWord(t[i])]

Upper(t) == [i \in 1..Len(t) |-> UpperWord(t[i])]

\* str.strip(): whitespace tokens " " dropped at both ends
RECURSIVE LStrip(_)
LStrip(t) == IF t # <<>> /\ Head(t) = " " THEN LStrip(Tail(t)) ELSE t

RECURSIVE RStrip(_)
RStrip(t) ==
    IF t # <<>> /\ t[Len(t)] = " " THEN RStrip(SubSeq(t, 1, Len(t) - 1)) ELSE t

Strip(t) == RStrip(LStrip(t))

\* str.split(): the non-whitespace tokens
RECURSIVE Split(_)
Split(t) ==
    IF t = <<>> THEN <<>>
    ELSE IF Head(t) = " " THEN Split(Tail(t))
    ELSE <<Head(t)>> \o Split(Tail(t))

\* str.split(','): the segments between the "," tokens
RECURSIVE SplitComma(_)
SplitComma(t) ==
    IF t = <<>> THEN << <<>> >>
    ELSE LET rest == SplitComma(Tail(t)) IN
         IF Head(t) = "," THEN << <<>> >> \o rest
         ELSE << <<Head(t)>> \o Head(rest) >> \o Tail(rest)

\* str.replace(" ", "+")
Replace(t) == [i \in 1..Len(t) |-> IF t[i] = " " THEN "+" ELSE t[i]]

----------------------------------------------------------------------------
(* The documents the site can answer with *)

Hrefs == {<<"d1">>, <<"d2">>}

\* text of the address cell: "<street>, <city>, <state> <zip>"
Addr(city, state, zip) ==
    <<" ", "St", ",", " ">> \o city \o <<",", " ">> \o state \o <<" ">> \o zip

\* one <tr>: whether it holds an <a href>, the href, the number of <td>
\* cells, and the text of the cell at the address index
Row(anchor, href, cells, addr) ==
    [anchor |-> anchor, href |-> href, cells |-> cells, addr |-> addr]

Rows ==
    { Row(TRUE, <<"d1">>, 2, Addr(<<"Rome">>, <<"GA">>, <<"30039">>)),
      Row(TRUE, <<"d2">>, 2, Addr(<<"ROME">>, <<"Ga">>, <<"30039">>)),
      Row(TRUE, <<"d2">>, 2, Addr(<<"Paris">>, <<"GA">>, <<"30039">>)),
      Row(FALSE, None, 2, Addr(<<"Rome">>, <<"GA">>, <<"30039">>)) }

RowSeqs == UNION { [1..n -> Rows] : n \in 0..MaxRows }

\* the pages a site can answer with when the schools it lists are rs
RowSeqsOf(rs) == UNION { [1..n -> rs] : n \in 0..MaxRows }

\* href of the anchor whose text is "Next >>" (None: no such anchor); the
\* anchors of the listings always carry an href
NextHref == <<"next">>

\* the n-th page of a listing: the last page a listing can have carries no
\* next link, unless the listing is one whose next links never end (a page
\* whose next link leads back to itself, say)
PagesAt(n, unending) ==
    [rows : RowSeqsOf(listed),
     next : IF unending THEN {NextHref}
            ELSE IF n < MaxPages THEN {None, NextHref} ELSE {None}]

NoPage == [rows |-> <<>>, next |-> None]

\* the detail document behind a school link: which directory's markup it
\* is, whether the "NCES School ID:" label is there, whether the element
\* after the label is there (the next <font size="3">, or the sibling of
\* the next <br>, which the private pages always have), and that
\* element's text
IdWord(url) ==
    CASE url = <<"ccd/", "d1">> -> "130255001937"
      [] url = <<"ccd/", "d2">> -> "010009000011"
      [] url = <<"pss/", "d1">> -> "01434161"
      [] url = <<"pss/", "d2">> -> "00704801"
      [] OTHER -> "0"

DocsAt(url) ==
    [fmt : {IF Head(url) = "ccd/" THEN "public" ELSE "private"},
     label : BOOLEAN, elem : BOOLEAN,
     text : { <<" ", IdWord(url), " ">>, <<" ">> }]

----------------------------------------------------------------------------
(* SchoolSearcher: the pure parts *)

\* base_url of the detail and next-page links
BaseUrl(type) == IF type = "public" THEN <<"ccd/">> ELSE <<"pss/">>

\* address_index
AddressIndex == 1

\* float('inf'), above every priority ordinal
Inf == 99

\* the request target of a listing search
\* a plausible slip: only the regular-school flag, as the detail request has
ListingUrlRegularOnly(type, name) ==
    IF type = "public"
    THEN [base |-> "ccd/school_list.asp", Search |-> <<"1">>,
          Name |-> Replace(name), City |-> None, State |-> None, Zip |-> None,
          SchoolType |-> <<1>>]
    ELSE [base |-> "pss/school_list.asp", Search |-> <<"1">>,
          Name |-> Replace(name), City |-> None, State |-> None, Zip |-> None,
          SchoolType |-> <<>>]

ListingUrl(type, name) ==
    IF type = "public"
    THEN [base |-> "ccd/school_list.asp", Search |-> <<"1">>,
          Name |-> Replace(name), City |-> None, State |-> None, Zip |-> None,
          SchoolType |-> <<1, 2, 3, 4>>]
    ELSE [base |-> "pss/school_list.asp", Search |-> <<"1">>,
          Name |-> Replace(name), City |-> None, State |-> None, Zip |-> None,
          SchoolType |-> <<>>]

\* which directory answers a request target
SiteOf(base) == IF base \in {"ccd/", "ccd/school_list.asp"} THEN "public" ELSE "private"

\* address_parts, school_city, state_zip_parts, school_state, school_zip
AddressParts(row) == SplitComma(Strip(row.addr))

SchoolCity(parts) ==
    IF Len(parts) > 1 THEN Strip(parts[Len(parts) - 1]) ELSE None

StateZipParts(parts) ==
    IF Len(parts) > 0 THEN Split(Strip(parts[Len(parts)])) ELSE <<>>

SchoolState(szp) == IF Len(szp) > 1 THEN <<szp[Len(szp) - 1]>> ELSE None

\* a plausible slip: the first token of the state and zip part
SchoolZipFirstToken(szp) == IF Len(szp) > 0 THEN <<szp[1]>> ELSE None

SchoolZip(szp) == IF Len(szp) > 0 THEN <<szp[Len(szp)]>> ELSE None

\* a plausible slip: the zip alone decides
ExactMatchZipOnly(city, state, zip, h) == zip = h.zip

\* a plausible slip: any one of the three fields is enough
ExactMatchAnyField(city, state, zip, h) ==
    \/ Lower(city) = Lower(h.city)
    \/ zip = h.zip
    \/ Upper(state) = Upper(h.state)

\* the test of the all-three rule
ExactMatch(city, state, zip, h) ==
    /\ Lower(city) = Lower(h.city)
    /\ zip = h.zip
    /\ Upper(state) = Upper(h.state)

\* a plausible slip: only the anchor is looked for
SkippedWithoutAnchorOnly(row) == ~row.anchor

\* the entries the loop passes over: no <a href>, no <td> at the address
\* index, or an address of fewer than two comma-separated parts
Skipped(row) ==
    \/ ~row.anchor
    \/ row.cells <= AddressIndex
    \/ Len(AddressParts(row)) < 2

\* a plausible slip: a later row of the same priority takes over
TakeOnTie(acc, link, p) ==
    IF acc.prio >= p
    THEN [ret |-> None, best |-> link, prio |-> p]
    ELSE [ret |-> None, best |-> acc.best, prio |-> acc.prio]

\* if best_priority > p: best_match = link; best_priority = p
Take(acc, link, p) ==
    IF acc.prio > p
    THEN [ret |-> None, best |-> link, prio |-> p]
    ELSE [ret |-> None, best |-> acc.best, prio |-> acc.prio]

\* a plausible slip: the zip rule is not tried when a state is given
ScoreRowZipWithoutState(base, row, h, acc) ==
    LET parts == AddressParts(row)
        city  == SchoolCity(parts)
        szp   == StateZipParts(parts)
        state == SchoolState(szp)
        zip   == SchoolZip(szp)
        link  == base \o row.href
        keep  == [ret |-> None, best |-> acc.best, prio |-> acc.prio]
    IN  IF Skipped(row) THEN keep
        ELSE IF Truthy(h.city) /\ Truthy(h.zip) /\ Truthy(h.state)
        THEN IF ExactMatch(city, state, zip, h)
             THEN [ret |-> link, best |-> acc.best, prio |-> acc.prio]
             ELSE keep
        ELSE IF Truthy(h.state) /\ Truthy(h.city)
        THEN IF Lower(city) = Lower(h.city) /\ Upper(state) = Upper(h.state)
             THEN Take(acc, link, 2) ELSE keep
        ELSE IF Truthy(h.zip) /\ ~Truthy(h.state)
        THEN IF zip = h.zip THEN Take(acc, link, 3) ELSE keep
        ELSE IF Truthy(h.city)
        THEN IF Lower(city) = Lower(h.city) THEN Take(acc, link, 4) ELSE keep
        ELSE IF Truthy(h.state)
        THEN IF Upper(state) = Upper(h.state) THEN Take(acc, link, 5) ELSE keep
        ELSE keep

\* a plausible slip: the city rule is tried before the zip rule
ScoreRowCityFirst(base, row, h, acc) ==
    LET parts == AddressParts(row)
        city  == SchoolCity(parts)
        szp   == StateZipParts(parts)
        state == SchoolState(szp)
        zip   == SchoolZip(szp)
        link  == base \o row.href
        keep  == [ret |-> None, best |-> acc.best, prio |-> acc.prio]
    IN  IF Skipped(row) THEN keep
        ELSE IF Truthy(h.city) /\ Truthy(h.zip) /\ Truthy(h.state)
        THEN IF ExactMatch(city, state, zip, h)
             THEN [ret |-> link, best |-> acc.best, prio |-> acc.prio]
             ELSE keep
        ELSE IF Truthy(h.state) /\ Truthy(h.city)
        THEN IF Lower(city) = Lower(h.city) /\ Upper(state) = Upper(h.state)
             THEN Take(acc, link, 2) ELSE keep
        ELSE IF Truthy(h.city)
        THEN IF Lower(city) = Lower(h.city) THEN Take(acc, link, 4) ELSE keep
        ELSE IF Truthy(h.zip)
        THEN IF zip = h.zip THEN Take(acc, link, 3) ELSE keep
        ELSE IF Truthy(h.state)
        THEN IF Upper(state) = Upper(h.state) THEN Take(acc, link, 5) ELSE keep
        ELSE keep

\* a plausible slip: without any hint every entry with an address matches
ScoreRowAnyWithoutHints(base, row, h, acc) ==
    LET parts == AddressParts(row)
        city  == SchoolCity(parts)
        szp   == StateZipParts(parts)
        state == SchoolState(szp)
        zip   == SchoolZip(szp)
        link  == base \o row.href
        keep  == [ret |-> None, best |-> acc.best, prio |-> acc.prio]
        take(p) == Take(acc, link, p)
    IN  IF Skipped(row) THEN keep
        ELSE IF Truthy(h.city) /\ Truthy(h.zip) /\ Truthy(h.state)
        THEN IF ExactMatch(city, state, zip, h)
             THEN [ret |-> link, best |-> acc.best, prio |-> acc.prio]
             ELSE keep
        ELSE IF Truthy(h.state) /\ Truthy(h.city)
        THEN IF Lower(city) = Lower(h.city) /\ Upper(state) = Upper(h.state)
             THEN take(2) ELSE keep
        ELSE IF Truthy(h.zip)
        THEN IF zip = h.zip THEN take(3) ELSE keep
        ELSE IF Truthy(h.city)
        THEN IF Lower(city) = Lower(h.city) THEN take(4) ELSE keep
        ELSE IF Truthy(h.state)
        THEN IF Upper(state) = Upper(h.state) THEN take(5) ELSE keep
        ELSE take(6)

\* the body of the for loop for one entry: acc is (best_match, best_priority);
\* ret is the value of an immediate return
ScoreRow(base, row, h, acc) ==
    LET parts == AddressParts(row)
        city  == SchoolCity(parts)
        szp   == StateZipParts(parts)
        state == SchoolState(szp)
        zip   == SchoolZip(szp)
        link  == base \o row.href
        keep  == [ret |-> None, best |-> acc.best, prio |-> acc.prio]
        take(p) == Take(acc, link, p)
    IN  IF Skipped(row) THEN keep
        ELSE IF Truthy(h.city) /\ Truthy(h.zip) /\ Truthy(h.state)
        THEN IF ExactMatch(city, state, zip, h)
             THEN [ret |-> link, best |-> acc.best, prio |-> acc.prio]
             ELSE keep
        ELSE IF Truthy(h.state) /\ Truthy(h.city)
        THEN IF Lower(city) = Lower(h.city) /\ Upper(state) = Upper(h.state)
             THEN take(2) ELSE keep
        ELSE IF Truthy(h.zip)
        THEN IF zip = h.zip THEN take(3) ELSE keep
        ELSE IF Truthy(h.city)
        THEN IF Lower(city) = Lower(h.city) THEN take(4) ELSE keep
        ELSE IF Truthy(h.state)
        THEN IF Upper(state) = Upper(h.state) THEN take(5) ELSE keep
        ELSE keep

\* a plausible slip: the loop goes on after an all-three match and the last
\* such row wins
RECURSIVE ScanFromKeepLast(_, _, _, _, _)
ScanFromKeepLast(base, rows, h, i, acc) ==
    LET ret == IF "ret" \in DOMAIN acc THEN acc.ret ELSE None IN
    IF i > Len(rows)
    THEN [ret |-> ret, best |-> acc.best, prio |-> acc.prio, n |-> Len(rows)]
    ELSE LET r == ScoreRow(base, rows[i], h,
                           [best |-> acc.best, prio |-> acc.prio])
         IN  ScanFromKeepLast(base, rows, h, i + 1,
                [ret  |-> IF Truthy(r.ret) THEN r.ret ELSE ret,
                 best |-> r.best, prio |-> r.prio])

\* the for loop over school_entries from entry i on; n counts the entries
\* the loop has looked at when it ends
RECURSIVE ScanFrom(_, _, _, _, _)
ScanFrom(base, rows, h, i, acc) ==
    IF i > Len(rows)
    THEN [ret |-> None, best |-> acc.best, prio |-> acc.prio, n |-> Len(rows)]
    ELSE LET r == ScoreRow(base, rows[i], h, acc) IN
         IF Truthy(r.ret)
         THEN [ret |-> r.ret, best |-> r.best, prio |-> r.prio, n |-> i]
         ELSE ScanFrom(base, rows, h, i + 1, [best |-> r.best, prio |-> r.prio])

\* a plausible slip: the entries are gone through from the last to the first
ScanPageLastFirst(type, rows, h) ==
    ScanFrom(BaseUrl(type),
             [k \in 1..Len(rows) |-> rows[Len(rows) + 1 - k]], h, 1,
             [best |-> None, prio |-> Inf])

ScanPage(type, rows, h) ==
    ScanFrom(BaseUrl(type), rows, h, 1, [best |-> None, prio |-> Inf])

\* a plausible slip: the text is returned without strip()
ExtractNoStrip(type, doc) ==
    IF doc.fmt = type /\ doc.label /\ doc.elem /\ Truthy(Strip(doc.text))
    THEN doc.text ELSE None

\* a plausible slip: the public lookup is used for both directories
ExtractPublicOnly(type, doc) ==
    IF doc.fmt = "public" /\ doc.label /\ doc.elem THEN Strip(doc.text) ELSE None

\* a plausible slip: the element after the label is not tested
ExtractIgnoringElement(type, doc) ==
    IF doc.fmt = type /\ doc.label THEN Strip(doc.text) ELSE None

\* extract_nces_school_id
ExtractNcesSchoolId(type, doc) ==
    IF type = "public"
    THEN IF doc.fmt = "public" /\ doc.label /\ doc.elem
         THEN Strip(doc.text) ELSE None
    ELSE IF type = "private"
    THEN IF doc.fmt = "private" /\ doc.label /\ doc.elem /\ Truthy(doc.text)
         THEN Strip(doc.text) ELSE None
    ELSE None

----------------------------------------------------------------------------
(* What the fetches of a call showed, recorded for the properties.  These  *)
(* are statements about the documents, written from the rules of the       *)
(* specification and not from the scan loop.                               *)

\* a row the listing can offer as a candidate
Usable(row) ==
    /\ row.anchor
    /\ row.cells >= 2
    /\ \E i \in 1..Len(Strip(row.addr)) : Strip(row.addr)[i] = ","

RowCity(row) == SchoolCity(AddressParts(row))
RowState(row) == SchoolState(StateZipParts(AddressParts(row)))
RowZip(row) == SchoolZip(StateZipParts(AddressParts(row)))

SameIgnoringCase(a, b) == Lower(a) = Lower(b)

\* the one rule the supplied hints select (0: none)
Rule(h) ==
    IF Truthy(h.city) /\ Truthy(h.state) /\ Truthy(h.zip) THEN 1
    ELSE IF Truthy(h.state) /\ Truthy(h.city) THEN 2
    ELSE IF Truthy(h.zip) THEN 3
    ELSE IF Truthy(h.city) THEN 4
    ELSE IF Truthy(h.state) THEN 5
    ELSE 0

RowMatches(row, h) ==
    /\ Usable(row)
    /\ Rule(h) # 0
    /\ Rule(h) \in {1, 2, 4} => SameIgnoringCase(RowCity(row), h.city)
    /\ Rule(h) \in {1, 2, 5} => SameIgnoringCase(RowState(row), h.state)
    /\ Rule(h) \in {1, 3} => RowZip(row) = h.zip

\* index of the first matching row of a page (0: none)
FirstMatch(rows, h) ==
    IF \E i \in 1..Len(rows) : RowMatches(rows[i], h)
    THEN CHOOSE i \in 1..Len(rows) :
            /\ RowMatches(rows[i], h)
            /\ \A j \in 1..(i - 1) : ~RowMatches(rows[j], h)
    ELSE 0

\* the page fetched last: its first matching row and its size
PageSummary(pg, h) ==
    LET i == FirstMatch(pg.rows, h) IN
    [match |-> IF i = 0 THEN None ELSE pg.rows[i].href,
     idx   |-> i,
     nrows |-> Len(pg.rows),
     next  |-> pg.next # None]

NoSummary == [match |-> None, idx |-> 0, nrows |-> 0, next |-> FALSE]

\* one attempt on one directory: whether any page seen held a usable row,
\* the first matching row in page order then row order, and what the
\* detail page held
NewAttempt(site, target) ==
    [site |-> site, target |-> target, usable |-> FALSE, matchPage |-> 0,
     match |-> None, detail |-> FALSE, hasId |-> FALSE]

SeePage(a, n, pg, h) ==
    LET i == FirstMatch(pg.rows, h) IN
    [a EXCEPT
       !.usable = @ \/ \E k \in 1..Len(pg.rows) : Usable(pg.rows[k]),
       !.matchPage = IF @ = 0 /\ i # 0 THEN n ELSE @,
       !.match = IF a.matchPage = 0 /\ i # 0 THEN pg.rows[i].href ELSE @]

\* the detail document carries an identifier field
DocHasId(doc) ==
    /\ doc.label
    /\ doc.elem
    /\ \E i \in 1..Len(doc.text) : doc.text[i] # " "

SeeDetail(a, doc) == [a EXCEPT !.detail = TRUE, !.hasId = DocHasId(doc)]

\* one fetch: a listing's first page, a next page or a detail page
Event(kind, site, ok) == [kind |-> kind, site |-> site, ok |-> ok]

\* the attempt a call is in
LastAttempt(c) == att[c][Len(att[c])]

\* a log of attempts with its last attempt replaced
OnLast(s, a) == [i \in 1..Len(s) |-> IF i = Len(s) THEN a ELSE s[i]]

----------------------------------------------------------------------------
(* State *)

Hints ==
    [city : {None, <<"rome">>}, state : {None, <<"ga">>},
     zip : {None, <<"30039">>}]

Names == { <<"Shiloh", " ", "High">> }

Args == [name : Names, hints : Hints]

\* no for loop is being followed
NoLoop == [at |-> "idle"]

\* no get_int call is being followed
NoGetInt == [at |-> "idle"]

\* no call of extract_school_details is followed
NoLunch == [at |-> "idle"]

NoArgs ==
    [name |-> None, hints |-> [city |-> None, state |-> None, zip |-> None]]

Resting == {"idle", "done", "raised"}

\* a new call by c: its frame starts at v; the frames of calls that have
\* returned or raised are gone (w)
Frames(f, c, v, w) ==
    [d \in Callers |-> IF d = c THEN v ELSE IF pc[d] \in Resting THEN w ELSE f[d]]

TypeOK ==
    /\ school_type \in Types
    /\ initType \in Types
    /\ pc \in [Callers ->
                {"idle", "search", "scan", "next", "detail", "fallback",
                 "done", "raised"}]
    /\ \A c \in Callers :
        /\ pageNo[c] \in 0..MaxFetches
        /\ scanned[c] \in 0..MaxRows
        /\ early[c] \in BOOLEAN
        /\ flips[c] \in 0..1
        /\ startType[c] \in Types
        /\ Len(att[c]) <= 2

\* SchoolSearcher(school_type=t)
InitSearcher ==
    /\ initType \in Types
    /\ school_type = initType
    /\ pc = [c \in Callers |-> "idle"]
    /\ args = [c \in Callers |-> NoArgs]
    /\ startType = [c \in Callers |-> initType]
    /\ page = [c \in Callers |-> NoPage]
    /\ pageNo = [c \in Callers |-> 0]
    /\ scanned = [c \in Callers |-> 0]
    /\ early = [c \in Callers |-> FALSE]
    /\ next_page_url = [c \in Callers |-> None]
    /\ school_url = [c \in Callers |-> None]
    /\ result = [c \in Callers |-> None]
    /\ flips = [c \in Callers |-> 0]
    /\ log = [c \in Callers |-> <<>>]
    /\ att = [c \in Callers |-> <<>>]
    /\ cur = [c \in Callers |-> NoSummary]

\* a searcher in front of a site whose listings end
Init ==
    /\ InitSearcher
    /\ endless = FALSE
    /\ loop = NoLoop
    /\ gi = NoGetInt
    /\ le = NoLunch
    /\ listed = Rows

----------------------------------------------------------------------------
(* get_nces_id, one action per stretch of code between two fetches *)

\* searcher.get_nces_id(name, city, state, zip_code) is called
Enter(c, a) ==
    /\ pc[c] \in Resting
    /\ pc' = Frames(pc, c, "search", "idle")
    /\ args' = Frames(args, c, a, NoArgs)
    /\ startType' = Frames(startType, c, school_type, initType)
    /\ page' = Frames(page, c, NoPage, NoPage)
    /\ pageNo' = Frames(pageNo, c, 0, 0)
    /\ scanned' = Frames(scanned, c, 0, 0)
    /\ early' = Frames(early, c, FALSE, FALSE)
    /\ next_page_url' = Frames(next_page_url, c, None, None)
    /\ school_url' = Frames(school_url, c, None, None)
    /\ result' = Frames(result, c, None, None)
    /\ flips' = Frames(flips, c, 0, 0)
    /\ log' = Frames(log, c, <<>>, <<>>)
    /\ att' = Frames(att, c, <<>>, <<>>)
    /\ cur' = Frames(cur, c, NoSummary, NoSummary)
    /\ UNCHANGED <<school_type, initType>>

\* the caller of the calls that are made one after another
MainCaller == "a"

\* one call after another: nobody is inside get_nces_id
Call(c) ==
    /\ c = MainCaller
    /\ UNCHANGED others
    /\ \A d \in Callers : pc[d] \in Resting
    /\ \E a \in Args : Enter(c, a)

\* a plausible slip: the failure is caught and taken for "not found"
RaiseSwallowed(c, ev) ==
    /\ pc' = [pc EXCEPT ![c] = "fallback"]
    /\ log' = [log EXCEPT ![c] = Append(@, ev)]
    /\ UNCHANGED <<school_type, initType, args, startType, page, pageNo,
                   scanned, early, next_page_url, school_url, result, flips,
                   att, cur>>

\* fetch_html_content raises on a status other than 200
Raise(c, ev) ==
    /\ pc' = [pc EXCEPT ![c] = "raised"]
    /\ log' = [log EXCEPT ![c] = Append(@, ev)]
    /\ UNCHANGED <<school_type, initType, args, startType, page, pageNo,
                   scanned, early, next_page_url, school_url, result, flips,
                   att, cur>>

\* get_school_search_html: the first page of the listing
GetSchoolSearchHtml(c) ==
    /\ pc[c] = "search"
    /\ UNCHANGED others
    /\ LET url  == ListingUrl(school_type, args[c].name)
           site == SiteOf(url.base)
       IN \E status \in Statuses :
            IF status # 200
            THEN Raise(c, Event("listing", site, FALSE))
            ELSE \E pg \in PagesAt(1, endless) :
                   /\ page' = [page EXCEPT ![c] = pg]
                   /\ pageNo' = [pageNo EXCEPT ![c] = 1]
                   /\ pc' = [pc EXCEPT ![c] = "scan"]
                   /\ log' = [log EXCEPT ![c] =
                        Append(@, Event("listing", site, TRUE))]
                   /\ att' = [att EXCEPT ![c] =
                        Append(@, SeePage(NewAttempt(site, url), 1, pg,
                                          args[c].hints))]
                   /\ cur' = [cur EXCEPT ![c] =
                        PageSummary(pg, args[c].hints)]
                   /\ UNCHANGED <<school_type, initType, args, startType,
                                  scanned, early, next_page_url, school_url,
                                  result, flips>>

\* a plausible slip: the next page is fetched whenever there is one
FollowNextAlways(next_page_link, best_match) == Truthy(next_page_link)

\* if next_page_link and best_match is None
FollowNext(next_page_link, best_match) ==
    Truthy(next_page_link) /\ best_match = None

\* find_school_url_by_location up to its return or its fetch of the next page
\* a plausible slip: the rows are read by the rules of the directory the
\* listing came from, whatever self.school_type says by then
FindSchoolUrlByLocationOwnType(c) ==
    /\ pc[c] = "scan"
    /\ UNCHANGED others
    /\ LET r == ScanPage(LastAttempt(c).site, page[c].rows, args[c].hints) IN
         /\ scanned' = [scanned EXCEPT ![c] = r.n]
         /\ early' = [early EXCEPT ![c] = Truthy(r.ret)]
         /\ IF Truthy(r.ret)
            THEN /\ school_url' = [school_url EXCEPT ![c] = r.ret]
                 /\ next_page_url' = next_page_url
                 /\ pc' = [pc EXCEPT ![c] = "detail"]
            ELSE IF FollowNext(page[c].next, r.best)
            THEN /\ school_url' = school_url
                 /\ next_page_url' = [next_page_url EXCEPT ![c] =
                        BaseUrl(LastAttempt(c).site) \o page[c].next]
                 /\ pc' = [pc EXCEPT ![c] = "next"]
            ELSE /\ school_url' = [school_url EXCEPT ![c] = r.best]
                 /\ next_page_url' = next_page_url
                 /\ pc' = [pc EXCEPT ![c] =
                        IF Truthy(r.best) THEN "detail" ELSE "fallback"]
    /\ page' = [page EXCEPT ![c] = NoPage]
    /\ UNCHANGED <<school_type, initType, args, startType, pageNo, result,
                   flips, log, att, cur>>

FindSchoolUrlByLocation(c) ==
    /\ pc[c] = "scan"
    /\ UNCHANGED others
    /\ LET r == ScanPage(school_type, page[c].rows, args[c].hints) IN
         /\ scanned' = [scanned EXCEPT ![c] = r.n]
         /\ early' = [early EXCEPT ![c] = Truthy(r.ret)]
         /\ IF Truthy(r.ret)
            THEN /\ school_url' = [school_url EXCEPT ![c] = r.ret]
                 /\ next_page_url' = next_page_url
                 /\ pc' = [pc EXCEPT ![c] = "detail"]
            ELSE IF FollowNext(page[c].next, r.best)
            THEN /\ school_url' = school_url
                 /\ next_page_url' = [next_page_url EXCEPT ![c] =
                        BaseUrl(school_type) \o page[c].next]
                 /\ pc' = [pc EXCEPT ![c] = "next"]
            ELSE /\ school_url' = [school_url EXCEPT ![c] = r.best]
                 /\ next_page_url' = next_page_url
                 /\ pc' = [pc EXCEPT ![c] =
                        IF Truthy(r.best) THEN "detail" ELSE "fallback"]
    /\ page' = [page EXCEPT ![c] = NoPage]
    /\ UNCHANGED <<school_type, initType, args, startType, pageNo, result,
                   flips, log, att, cur>>

\* fetch_html_content(next_page_url) and the recursive call on its page
FetchNextPageAgain(c) ==
    /\ pc[c] = "next"
    /\ UNCHANGED others
    /\ Len(log[c]) < 2 * MaxFetches + 2
    /\ LET site == SiteOf(Head(next_page_url[c])) IN
       \E pg \in PagesAt(1, endless) :
          /\ page' = [page EXCEPT ![c] = pg]
          /\ pc' = [pc EXCEPT ![c] = "scan"]
          /\ log' = [log EXCEPT ![c] = Append(@, Event("next", site, TRUE))]
          /\ att' = [att EXCEPT ![c] =
               OnLast(att[c], SeePage(LastAttempt(c), pageNo[c], pg,
                                      args[c].hints))]
          /\ cur' = [cur EXCEPT ![c] = PageSummary(pg, args[c].hints)]
          /\ UNCHANGED <<school_type, initType, args, startType, pageNo,
                         scanned, early, next_page_url, school_url,
                         result, flips>>

\* the fetch of the next page, inside find_school_url_by_location
FetchNextPage(c) ==
    /\ pc[c] = "next"
    /\ UNCHANGED others
    /\ pageNo[c] < MaxFetches
    /\ LET site == SiteOf(Head(next_page_url[c])) IN
       \E status \in Statuses :
         IF status # 200
         THEN Raise(c, Event("next", site, FALSE))
         ELSE \E pg \in PagesAt(pageNo[c] + 1, endless) :
                /\ page' = [page EXCEPT ![c] = pg]
                /\ pageNo' = [pageNo EXCEPT ![c] = @ + 1]
                /\ pc' = [pc EXCEPT ![c] = "scan"]
                /\ log' = [log EXCEPT ![c] = Append(@, Event("next", site, TRUE))]
                /\ att' = [att EXCEPT ![c] =
                     OnLast(att[c], SeePage(LastAttempt(c), pageNo[c] + 1, pg,
                                            args[c].hints))]
                /\ cur' = [cur EXCEPT ![c] = PageSummary(pg, args[c].hints)]
                /\ UNCHANGED <<school_type, initType, args, startType,
                               scanned, early, next_page_url, school_url,
                               result, flips>>

\* a plausible slip: the identifier is read off the listing row's link and
\* the detail page is never fetched
FetchDetailSkipped(c) ==
    /\ pc[c] = "detail"
    /\ UNCHANGED others
    /\ result' = [result EXCEPT ![c] = <<IdWord(school_url[c])>>]
    /\ pc' = [pc EXCEPT ![c] = "done"]
    /\ UNCHANGED <<school_type, initType, args, startType, page, pageNo,
                   scanned, early, next_page_url, school_url, flips, log,
                   att, cur>>

\* a plausible slip: the school_type of the start of the call is put back
\* when the identifier is returned
FetchDetailRestoresType(c) ==
    /\ pc[c] = "detail"
    /\ UNCHANGED others
    /\ LET url  == school_url[c]
           site == SiteOf(Head(url))
       IN \E status \in Statuses :
            IF status # 200
            THEN Raise(c, Event("detail", site, FALSE))
            ELSE \E doc \in DocsAt(url) :
                   LET nces_code == ExtractNcesSchoolId(school_type, doc) IN
                   /\ log' = [log EXCEPT ![c] =
                        Append(@, Event("detail", site, TRUE))]
                   /\ att' = [att EXCEPT ![c] =
                        OnLast(att[c], SeeDetail(LastAttempt(c), doc))]
                   /\ IF Truthy(nces_code)
                      THEN /\ result' = [result EXCEPT ![c] = nces_code]
                           /\ pc' = [pc EXCEPT ![c] = "done"]
                           /\ school_type' = startType[c]
                      ELSE /\ result' = result
                           /\ pc' = [pc EXCEPT ![c] = "fallback"]
                           /\ school_type' = school_type
                   /\ UNCHANGED <<initType, args, startType,
                                  page, pageNo, scanned, early, next_page_url,
                                  school_url, flips, cur>>

\* fetch_html_content(school_url), extract_nces_school_id, and the return of
\* a truthy nces_code
FetchDetail(c) ==
    /\ pc[c] = "detail"
    /\ UNCHANGED others
    /\ LET url  == school_url[c]
           site == SiteOf(Head(url))
       IN \E status \in Statuses :
            IF status # 200
            THEN Raise(c, Event("detail", site, FALSE))
            ELSE \E doc \in DocsAt(url) :
                   LET nces_code == ExtractNcesSchoolId(school_type, doc) IN
                   /\ log' = [log EXCEPT ![c] =
                        Append(@, Event("detail", site, TRUE))]
                   /\ att' = [att EXCEPT ![c] =
                        OnLast(att[c], SeeDetail(LastAttempt(c), doc))]
                   /\ IF Truthy(nces_code)
                      THEN /\ result' = [result EXCEPT ![c] = nces_code]
                           /\ pc' = [pc EXCEPT ![c] = "done"]
                      ELSE /\ result' = result
                           /\ pc' = [pc EXCEPT ![c] = "fallback"]
                   /\ UNCHANGED <<school_type, initType, args, startType,
                                  page, pageNo, scanned, early, next_page_url,
                                  school_url, flips, cur>>

\* the recursive get_nces_id of the fallback
Retry(c) ==
    /\ pc' = [pc EXCEPT ![c] = "search"]
    /\ pageNo' = [pageNo EXCEPT ![c] = 0]
    /\ scanned' = [scanned EXCEPT ![c] = 0]
    /\ early' = [early EXCEPT ![c] = FALSE]
    /\ school_url' = [school_url EXCEPT ![c] = None]
    /\ next_page_url' = [next_page_url EXCEPT ![c] = None]
    /\ cur' = [cur EXCEPT ![c] = NoSummary]
    /\ result' = result

\* a plausible slip: None is returned without trying the private directory
FallbackNoRetry(c) ==
    /\ pc[c] = "fallback"
    /\ UNCHANGED others
    /\ result' = [result EXCEPT ![c] = None]
    /\ pc' = [pc EXCEPT ![c] = "done"]
    /\ UNCHANGED <<school_type, flips, pageNo, scanned, early, school_url,
                   next_page_url, cur, initType, args, startType, page, log,
                   att>>

\* a plausible slip: the retry is made without the switch of school_type
FallbackKeepsType(c) ==
    /\ pc[c] = "fallback"
    /\ UNCHANGED others
    /\ Len(att[c]) < 4
    /\ Retry(c)
    /\ UNCHANGED <<school_type, flips, initType, args, startType, page, log,
                   att>>

\* a plausible slip: the switch goes to the other directory in both
\* directions
FallbackToggle(c) ==
    /\ pc[c] = "fallback"
    /\ UNCHANGED others
    /\ IF flips[c] = 0
       THEN /\ school_type' = IF school_type = "public" THEN "private" ELSE "public"
            /\ flips' = [flips EXCEPT ![c] = @ + 1]
            /\ Retry(c)
       ELSE /\ result' = [result EXCEPT ![c] = None]
            /\ pc' = [pc EXCEPT ![c] = "done"]
            /\ UNCHANGED <<school_type, flips, pageNo, scanned, early,
                           school_url, next_page_url, cur>>
    /\ UNCHANGED <<initType, args, startType, page, log, att>>

\* the switch to the private directory and the recursive get_nces_id, or
\* return None
Fallback(c) ==
    /\ pc[c] = "fallback"
    /\ UNCHANGED others
    /\ IF school_type = "public"
       THEN /\ school_type' = "private"
            /\ flips' = [flips EXCEPT ![c] = @ + 1]
            /\ Retry(c)
       ELSE /\ result' = [result EXCEPT ![c] = None]
            /\ pc' = [pc EXCEPT ![c] = "done"]
            /\ UNCHANGED <<school_type, flips, pageNo, scanned, early,
                           school_url, next_page_url, cur>>
    /\ UNCHANGED <<initType, args, startType, page, log, att>>

Next ==
    \E c \in Callers :
        \/ Call(c)
        \/ GetSchoolSearchHtml(c)
        \/ FindSchoolUrlByLocation(c)
        \/ FetchNextPage(c)
        \/ FetchDetail(c)
        \/ Fallback(c)

Spec == Init /\ [][Next]_vars

\* a searcher in front of a site whose listings end, or never end
InitPaging ==
    /\ InitSearcher
    /\ endless \in BOOLEAN
    /\ loop = NoLoop
    /\ gi = NoGetInt
    /\ le = NoLunch
    /\ listed = Rows

\* a call that has started runs on: every stretch of code the interpreter
\* executes moves the position of the call, and a call in progress can
\* always take its next step (short of the cap on the pages followed)
Running ==
    \E c \in Callers :
        /\ pc[c] \in {"search", "scan", "next", "detail", "fallback"}
        /\ pc[c] = "next" => pageNo[c] < MaxFetches
        /\ pc' \in [Callers -> {"search", "scan", "next", "detail",
                                "fallback", "done", "raised"} \cup {pc[c]}]
        /\ pc'[c] # pc[c]

SpecPaging == InitPaging /\ [][Next]_vars /\ WF_pc(Running)

----------------------------------------------------------------------------
(* The for loop of find_school_url_by_location followed entry by entry,    *)
(* over one page that carries no "Next >>" link                            *)

\* the <tr> entries a page can hold: addresses that differ from the hints
\* in the city, the state or the zip, and entries the loop passes over
Entries ==
    { Row(TRUE, <<"e1">>, 2, Addr(<<"Rome">>, <<"GA">>, <<"30039">>)),
      Row(TRUE, <<"e2">>, 2, Addr(<<"Paris">>, <<"GA">>, <<"30039">>)),
      Row(TRUE, <<"e3">>, 2, Addr(<<"Rome">>, <<"VA">>, <<"30039">>)),
      Row(TRUE, <<"e4">>, 2, Addr(<<"Rome">>, <<"GA">>, <<"30040">>)),
      Row(FALSE, None, 2, Addr(<<"Rome">>, <<"GA">>, <<"30039">>)),
      Row(TRUE, <<"e6">>, 1, Addr(<<"Rome">>, <<"GA">>, <<"30039">>)),
      Row(TRUE, <<"e7">>, 2, <<"Rome", " ", "GA", " ", "30039">>),
      Row(TRUE, <<"e8">>, 2, <<"Rome", ",", " ", "30039">>),
      Row(TRUE, <<"e9">>, 2, Addr(<<"Rome">>, <<>>, <<>>)) }

EntrySeqs == UNION { [1..n -> Entries] : n \in 0..MaxEntries }

\* find_school_url_by_location(html_content, city, zip_code, state) at the
\* top of its for loop
InitLoop ==
    /\ InitSearcher
    /\ endless = FALSE
    /\ gi = NoGetInt
    /\ le = NoLunch
    /\ listed = Rows
    /\ loop \in [at : {"for"}, school_entries : EntrySeqs, hints : Hints,
                 i : {1}, best_match : {None}, best_priority : {Inf},
                 ret : {None}]

\* the entry the loop is at
Entry == loop.school_entries[loop.i]

\* one pass through the body of the for loop
ForEntry ==
    /\ loop.at = "for"
    /\ loop.i <= Len(loop.school_entries)
    /\ LET r == ScoreRow(BaseUrl(school_type), Entry, loop.hints,
                         [best |-> loop.best_match,
                          prio |-> loop.best_priority])
       IN  loop' = IF Truthy(r.ret)
                   THEN [loop EXCEPT !.at = "returned", !.ret = r.ret]
                   ELSE [loop EXCEPT !.i = @ + 1, !.best_match = r.best,
                                     !.best_priority = r.prio]
    /\ UNCHANGED <<searcher, endless, listed, gi, le>>

\* the loop is over and the page has no next link: return best_match
EndFor ==
    /\ loop.at = "for"
    /\ loop.i > Len(loop.school_entries)
    /\ loop' = [loop EXCEPT !.at = "returned", !.ret = loop.best_match]
    /\ UNCHANGED <<searcher, endless, listed, gi, le>>

NextLoop == ForEntry \/ EndFor

SpecLoop == InitLoop /\ [][NextLoop]_vars

----------------------------------------------------------------------------
(* NCESUtils.get_int (src/nceschools/nces_utils.py)                        *)

\* the characters of a text: digits, a sign, a separator, a blank, a letter
Digits == {"0", "7", "8", "9"}

Chars == Digits \cup {"-", ",", " ", "a"}

Texts == UNION { [1..n -> Chars] : n \in 0..MaxChars }

DigitValue(ch) ==
    CASE ch = "0" -> 0 [] ch = "7" -> 7 [] ch = "8" -> 8 [] ch = "9" -> 9

\* re.sub(r'\D', '', text): the characters that are not digits are dropped
SubNonDigits(text) == SelectSeq(text, LAMBDA ch : ch \in Digits)

\* int(result) for a string of digits
RECURSIVE IntOf(_)
IntOf(ds) ==
    IF ds = <<>> THEN 0
    ELSE 10 * IntOf(SubSeq(ds, 1, Len(ds) - 1)) + DigitValue(ds[Len(ds)])

\* the first run of digits of a text
RECURSIVE FirstRun(_)
FirstRun(text) ==
    IF text = <<>> THEN <<>>
    ELSE IF Head(text) \notin Digits THEN FirstRun(Tail(text))
    ELSE IF Len(text) > 1 /\ text[2] \in Digits
         THEN <<Head(text)>> \o FirstRun(Tail(text))
         ELSE <<Head(text)>>

\* a plausible slip: only the first run of digits is read
GetIntFirstRun(text) ==
    IF FirstRun(text) # <<>> THEN <<IntOf(FirstRun(text))>> ELSE None

\* get_int(text): <<n>> for the integer n, None for None
GetInt(text) ==
    LET digits == SubNonDigits(text) IN
    IF digits # <<>> THEN <<IntOf(digits)>> ELSE None

\* get_int(text) has been called
InitGetInt ==
    /\ InitSearcher
    /\ endless = FALSE
    /\ loop = NoLoop
    /\ le = NoLunch
    /\ listed = Rows
    /\ gi \in [at : {"called"}, text : Texts, ret : {None}]

\* get_int returns
GetIntReturn ==
    /\ gi.at = "called"
    /\ gi' = [gi EXCEPT !.at = "returned", !.ret = GetInt(gi.text)]
    /\ UNCHANGED <<searcher, endless, listed, loop, le>>

NextGetInt == GetIntReturn

SpecGetInt == InitGetInt /\ [][NextGetInt]_vars

----------------------------------------------------------------------------
(* Two callers inside get_nces_id on one SchoolSearcher at a time: nothing in
   the class keeps a second call out while the first waits for a page, so
   the steps of the two interleave and both read and write self.school_type *)

\* the site lists one school, on any of its pages
SharedRows == { Row(TRUE, <<"d1">>, 2, Addr(<<"Rome">>, <<"GA">>, <<"30039">>)) }

InitShared ==
    /\ InitSearcher
    /\ endless = FALSE
    /\ loop = NoLoop
    /\ gi = NoGetInt
    /\ le = NoLunch
    /\ listed = SharedRows

\* what the callers of the shared instance ask for: one names the city, the
\* other gives no hint
SharedArgs(c) ==
    {a \in Args :
        /\ a.hints.state = None /\ a.hints.zip = None
        /\ Truthy(a.hints.city) <=> c = MainCaller}

\* a caller enters get_nces_id whatever the other is doing
CallShared(c) ==
    /\ pc[c] \in Resting
    /\ UNCHANGED others
    /\ \E a \in SharedArgs(c) : Enter(c, a)

NextShared ==
    \E c \in Callers :
        \/ CallShared(c)
        \/ GetSchoolSearchHtml(c)
        \/ FindSchoolUrlByLocation(c)
        \/ FetchNextPage(c)
        \/ FetchDetail(c)
        \/ Fallback(c)

SpecShared == InitShared /\ [][NextShared]_vars

----------------------------------------------------------------------------
(* PublicSchoolFetcher.extract_lunch_eligibility inside
   extract_school_details, followed on its own *)

\* the last content of a cell's <font>, before strip()
CellTexts == { <<>>, <<"7">>, <<"8", "9">>, <<"a">> }

\* a <td> of the row: with a <font> and its text, or without one
Cells == {[font |-> FALSE, text |-> <<>>]} \cup [font : {TRUE}, text : CellTexts]

\* what a detail page holds of the lunch table: whether the string
\* "Free lunch eligible" is found, whether it has a <tr> above it, and the
\* <td>s of that row
Soups ==
    {[label |-> FALSE, row |-> FALSE, columns |-> <<>>],
     [label |-> TRUE, row |-> FALSE, columns |-> <<>>]}
    \cup { [label |-> TRUE, row |-> TRUE, columns |-> cs] :
             cs \in UNION { [1..n -> Cells] : n \in 0..MaxColumns } }

\* the value returned, or the exception that left the function
Returns(d) == [raised |-> FALSE, value |-> d]
Raises == [raised |-> TRUE, value |-> <<>>]

\* extract_lunch_eligibility; columns[i].find('font') of a cell without a
\* <font> is None, and reading its contents raises
ExtractLunchEligibility(soup) ==
    IF soup.label /\ soup.row /\ Len(soup.columns) >= 3
    THEN IF \E i \in 1..3 : ~soup.columns[i].font
         THEN Raises
         ELSE Returns(
                ("Free lunch eligible" :> GetInt(Strip(soup.columns[1].text)))
             @@ ("Reduced lunch eligible" :>
                    GetInt(Strip(soup.columns[2].text)))
             @@ ("Free/reduced total eligible" :>
                    GetInt(Strip(soup.columns[3].text))))
    ELSE Returns(("Free lunch eligible" :> None)
              @@ ("Reduced-price lunch eligible" :> None)
              @@ ("Total (Free and reduced lunch eligible)" :> None))

\* the entries of the details that do not come from the lunch table; their
\* values are not followed here
OtherKeys ==
    {"Type", "Physical Address", "County", "Locale", "Total Students",
     "Classroom Teachers", "Student/Teacher Ratio", "Grade Span",
     "American Native", "Asian", "Black", "Hispanic", "Pacific Islander",
     "White", "Multiple Races", "Male Enrollment", "Female Enrollment"}

OtherFields == [k \in OtherKeys |-> None]

InitLunch ==
    /\ InitSearcher
    /\ endless = FALSE
    /\ loop = NoLoop
    /\ gi = NoGetInt
    /\ listed = Rows
    /\ le \in [at : {"called"}, soup : Soups, lunch : {Raises},
                details : {Raises}]

\* extract_school_details returns: the dictionary with **lunch_eligibility
\* spread into it, or None when an extraction raised
ExtractSchoolDetails ==
    /\ le.at = "called"
    /\ LET lunch_eligibility == ExtractLunchEligibility(le.soup)
       IN le' = [le EXCEPT
                   !.at = "returned",
                   !.lunch = lunch_eligibility,
                   !.details =
                       IF lunch_eligibility.raised
                       THEN Raises
                       ELSE Returns(lunch_eligibility.value @@ OtherFields)]
    /\ UNCHANGED <<searcher, endless, listed, loop, gi>>

NextLunch == ExtractSchoolDetails

SpecLunch == InitLunch /\ [][NextLunch]_vars

----------------------------------------------------------------------------
(* Properties *)

AllThree(c) == Rule(args[c].hints) = 1

\* the call has scanned the page it fetched last
AfterScan(c) == Len(att[c]) > 0 /\ pc[c] \in {"next", "detail", "fallback", "done"}

\* fetches of listing pages (first and next pages) a call has made
ListingFetches(c) ==
    Cardinality({i \in DOMAIN log[c] : log[c][i].kind \in {"listing", "next"}})

DetailFetches(c) ==
    Cardinality({i \in DOMAIN log[c] : log[c][i].kind = "detail"})

\* the directories a call has searched, in order
Attempts(c) == [i \in DOMAIN att[c] |-> att[c][i].site]

\* the identifier behind the first matching row of an attempt
IdOfMatch(a) == <<IdWord(BaseUrl(a.site) \o a.match)>>

\* C1: with city, state and zip all supplied, the scan returns the link of
\* the first row, in page order then row order, that matches all three
\* (city and state ignoring case); it returns at that row, having looked at
\* no later row and fetched no later page, and no other scan ends before
\* the end of its page.
C1_ExactMatchReturnsFirst ==
    \A c \in Callers :
        AfterScan(c) =>
            /\ (AllThree(c) /\ cur[c].idx # 0) =>
                  /\ early[c]
                  /\ school_url[c] = BaseUrl(LastAttempt(c).site) \o cur[c].match
                  /\ scanned[c] = cur[c].idx
                  /\ LastAttempt(c).matchPage = pageNo[c]
                  /\ pc[c] # "next"
            /\ early[c] => (AllThree(c) /\ cur[c].idx # 0)
            /\ scanned[c] < cur[c].nrows => early[c]

C1_Witness ==
    \E c \in Callers :
        /\ pc[c] = "detail"
        /\ early[c]
        /\ pageNo[c] = 2
        /\ scanned[c] = 1
        /\ cur[c].nrows = 2

\* C2 as stated: whenever all three hints match a row of page 1 of the
\* listing of the source the call starts on, the call makes exactly one
\* listing fetch, and it returns the identifier that row's detail page
\* carries.
C2_Original ==
    \A c \in Callers :
        (Len(att[c]) > 0 /\ AllThree(c) /\ att[c][1].matchPage = 1) =>
            /\ ListingFetches(c) = 1
            /\ (pc[c] = "done" /\ att[c][1].hasId) =>
                  result[c] = IdOfMatch(att[c][1])

\* C2 as amended: when all three hints match a row of page 1, no later page
\* of that listing is fetched; and when the detail page of the first such
\* row is fetched and carries an identifier, the call returns that
\* identifier after exactly one listing fetch.
C2_ExactMatchOnFirstPage ==
    \A c \in Callers :
        (Len(att[c]) > 0 /\ AllThree(c) /\ att[c][1].matchPage = 1) =>
            /\ \A i \in DOMAIN log[c] :
                 log[c][i].kind = "next" => log[c][i].site # att[c][1].site
            /\ (att[c][1].detail /\ att[c][1].hasId) =>
                  /\ pc[c] = "done"
                  /\ result[c] = IdOfMatch(att[c][1])
                  /\ ListingFetches(c) = 1
                  /\ Len(att[c]) = 1

C2_Witness ==
    \E c \in Callers :
        /\ pc[c] = "done"
        /\ AllThree(c)
        /\ att[c][1].matchPage = 1
        /\ cur[c].idx = 2
        /\ result[c] = <<"010009000011">>

\* C3: a call that starts on Public, sees no usable row there and finds a
\* match with an identifier on Private returns the Private identifier after
\* one Public attempt and exactly one Private attempt (its listing and one
\* detail fetch).
C3_FallbackFindsPrivate ==
    \A c \in Callers :
        (startType[c] = "public" /\ Len(att[c]) > 0 /\ ~att[c][1].usable) =>
            /\ ~att[c][1].detail
            /\ pc[c] = "done" => Len(att[c]) = 2
            /\ (Len(att[c]) = 2 /\ att[c][2].detail /\ att[c][2].hasId) =>
                  /\ pc[c] = "done"
                  /\ result[c] = IdOfMatch(att[c][2])
                  /\ Attempts(c) = <<"public", "private">>
                  /\ DetailFetches(c) = 1
                  /\ log[c][Len(log[c])] = Event("detail", "private", TRUE)
                  /\ Cardinality({i \in DOMAIN log[c] :
                                    log[c][i].kind = "listing"}) = 2

C3_Witness ==
    \E c \in Callers :
        /\ pc[c] = "done"
        /\ startType[c] = "public"
        /\ Len(att[c]) = 2
        /\ ~att[c][1].usable
        /\ result[c] = <<"01434161">>

\* C4: a call that starts on Public and finds a match on neither source
\* raises only if a fetch fails, and otherwise returns None after exactly
\* two attempts, Public then Private, without any detail fetch.
C4_NotFoundAfterBothSources ==
    \A c \in Callers :
        (startType[c] = "public"
           /\ \A i \in DOMAIN att[c] : att[c][i].match = None) =>
            /\ pc[c] = "raised" => ~log[c][Len(log[c])].ok
            /\ DetailFetches(c) = 0
            /\ Len(att[c]) <= 2
            /\ pc[c] = "done" =>
                  /\ result[c] = None
                  /\ Attempts(c) = <<"public", "private">>

C4_Witness ==
    \E c \in Callers :
        /\ pc[c] = "done"
        /\ startType[c] = "public"
        /\ Len(att[c]) = 2
        /\ att[c][1].usable /\ att[c][1].match = None
        /\ att[c][2].usable /\ att[c][2].match = None
        /\ \A i \in DOMAIN log[c] : log[c][i].ok
        /\ result[c] = None

\* C5: every call of a sequence of calls on one instance searches the
\* sources a fresh instance built with the same school_type would search:
\* it starts on the type the instance was constructed with.
C5_CallsIndependent ==
    \A c \in Callers :
        Len(att[c]) > 0 => att[c][1].site = initType

\* C6: a fetch that fails (listing, next or detail page) is the last fetch
\* of its call, the call raises, and the source type stays the one the
\* failed fetch was made on.
C6_TransportFailureRaises ==
    \A c \in Callers :
        \A i \in DOMAIN log[c] :
            ~log[c][i].ok =>
                /\ i = Len(log[c])
                /\ pc[c] = "raised"
                /\ school_type = log[c][i].site

C6_Witness ==
    \E c \in Callers :
        /\ pc[c] = "raised"
        /\ Len(log[c]) = 3
        /\ log[c][3] = Event("detail", "public", FALSE)

\* C7: a call changes school_type at most once, from the type it started
\* on to the other one and only after an inconclusive first attempt, and
\* makes at most two attempts.
C7_AtMostOneSwitch ==
    \A c \in Callers :
        /\ flips[c] <= 1
        /\ Len(att[c]) <= 2
        /\ pc[c] # "idle" =>
              school_type = IF flips[c] = 0 THEN startType[c] ELSE "private"
        /\ flips[c] = 1 => startType[c] = "public"
        /\ Len(att[c]) = 2 =>
              /\ flips[c] = 1
              /\ Attempts(c) = <<"public", "private">>
              /\ ~(att[c][1].detail /\ att[c][1].hasId)

C7_Witness ==
    \E c \in Callers :
        /\ pc[c] = "done"
        /\ flips[c] = 1
        /\ Len(att[c]) = 2

C9_PrivateStartNeverSearchesPublic ==
    \A c \in Callers :
        (pc[c] # "idle" /\ startType[c] = "private") =>
            /\ Len(att[c]) <= 1
            /\ \A i \in DOMAIN log[c] : log[c][i].site = "private"
            /\ flips[c] = 0
            /\ (pc[c] = "done" /\ ~(att[c][1].detail /\ att[c][1].hasId)) =>
                  result[c] = None

C9_Witness ==
    \E c \in Callers :
        /\ pc[c] = "done"
        /\ startType[c] = "private"
        /\ result[c] = None
        /\ Len(att[c]) = 1
        /\ att[c][1].detail

\* C10 as stated: when page 1 has no match and page 2 has a row matching
\* all three hints, the call makes exactly two listing fetches, and it
\* returns the identifier that row's detail page carries.
C10_Original ==
    \A c \in Callers :
        (Len(att[c]) > 0 /\ AllThree(c) /\ att[c][1].matchPage = 2) =>
            /\ ListingFetches(c) = 2
            /\ (pc[c] = "done" /\ att[c][1].hasId) =>
                  result[c] = IdOfMatch(att[c][1])

\* C10 as amended: when page 1 has no match and page 2 has a row matching
\* all three hints, that listing is fetched exactly twice; and when the
\* detail page of the first such row is fetched and carries an identifier,
\* the call returns that identifier after exactly two listing fetches.
C10_ExactMatchOnSecondPage ==
    \A c \in Callers :
        (Len(att[c]) > 0 /\ AllThree(c) /\ att[c][1].matchPage = 2) =>
            /\ Cardinality({i \in DOMAIN log[c] :
                  /\ log[c][i].kind \in {"listing", "next"}
                  /\ log[c][i].site = att[c][1].site
                  /\ i <= 2}) = 2
            /\ \A i \in DOMAIN log[c] :
                  (i > 2 /\ log[c][i].kind \in {"listing", "next"}) =>
                      log[c][i].site # att[c][1].site
            /\ (att[c][1].detail /\ att[c][1].hasId) =>
                  /\ pc[c] = "done"
                  /\ result[c] = IdOfMatch(att[c][1])
                  /\ ListingFetches(c) = 2
                  /\ Len(att[c]) = 1

C10_Witness ==
    \E c \in Callers :
        /\ pc[c] = "done"
        /\ AllThree(c)
        /\ att[c][1].matchPage = 2
        /\ Len(att[c]) = 1
        /\ result[c] # None

\* C11: after the scan of a page the next page is fetched exactly when the
\* page has a "Next >>" link and no row of it matched; otherwise the scan
\* ends with the first match of the page (or None), so that no page is
\* fetched after the first page that holds a match.
C11_NextPageOnlyWithoutMatch ==
    \A c \in Callers :
        AfterScan(c) =>
            /\ pc[c] = "next" <=> (cur[c].next /\ cur[c].idx = 0)
            /\ pc[c] = "next" =>
                  next_page_url[c] = BaseUrl(LastAttempt(c).site) \o NextHref
            /\ pc[c] \in {"detail", "fallback", "done"} =>
                  school_url[c] =
                     IF cur[c].idx = 0 THEN None
                     ELSE BaseUrl(LastAttempt(c).site) \o cur[c].match
            /\ LastAttempt(c).matchPage # 0 =>
                  /\ LastAttempt(c).matchPage = pageNo[c]
                  /\ pc[c] # "next"

C11_Witness ==
    \E c \in Callers :
        /\ pc[c] = "detail"
        /\ ~early[c]
        /\ cur[c].next
        /\ cur[c].idx = 2
        /\ pageNo[c] = 1

\* C15: every identifier a call returns was read from the detail page of
\* the row its scan selected: the last fetch of the call is the successful
\* fetch of that row's link, it follows the listing fetches of the same
\* attempt, and it is the attempt's only detail fetch.
C15_ResultReadFromDetailPage ==
    \A c \in Callers :
        (pc[c] = "done" /\ result[c] # None) =>
            LET a == LastAttempt(c)
                n == Len(log[c])
            IN /\ a.match # None
               /\ a.detail /\ a.hasId
               /\ school_url[c] = BaseUrl(a.site) \o a.match
               /\ result[c] = <<IdWord(school_url[c])>>
               /\ n >= 2
               /\ log[c][n] = Event("detail", a.site, TRUE)
               /\ log[c][n - 1].kind \in {"listing", "next"}
               /\ log[c][n - 1].site = a.site
               /\ log[c][n - 1].ok
               /\ Cardinality({i \in 1..n : log[c][i].kind = "detail"
                                  /\ log[c][i].site = a.site}) = 1

C15_Witness ==
    \E c \in Callers :
        /\ pc[c] = "done"
        /\ result[c] = <<"010009000011">>
        /\ pageNo[c] = 2
        /\ Len(att[c]) = 1

\* successful fetches of listing pages of one directory by a call
PagesFetched(c, site) ==
    Cardinality({i \in DOMAIN log[c] :
                    /\ log[c][i].kind \in {"listing", "next"}
                    /\ log[c][i].site = site
                    /\ log[c][i].ok})

\* the attempts of a call that have returned
Returned(c) ==
    {i \in DOMAIN att[c] :
        i < Len(att[c]) \/ pc[c] \in {"detail", "fallback", "done"}}

\* C12: on listings that end (chains of at most MaxPages pages) an attempt
\* fetches every page at most once, in order, hence at most as many pages
\* as the chain has, and every call returns or raises; on listings whose
\* next links never end an attempt returns only once a row has matched: with
\* no match it goes on fetching, past any number of pages.
C12_Safety ==
    \A c \in Callers :
        /\ ~endless =>
              /\ \A site \in Types : PagesFetched(c, site) <= MaxPages
              /\ pageNo[c] <= MaxPages
        /\ (Len(att[c]) > 0 /\ pc[c] \in {"scan", "next", "detail"}) =>
              PagesFetched(c, LastAttempt(c).site) = pageNo[c]
        /\ (AfterScan(c) /\ ~cur[c].next) =>
              PagesFetched(c, LastAttempt(c).site) = pageNo[c]
        /\ endless => \A i \in Returned(c) : att[c][i].match # None

Seen == SubSeq(loop.school_entries, 1, loop.i - 1)

\* the link the loop builds for an entry
LinkOf(row) == BaseUrl(school_type) \o row.href

\* the first of some entries that can be scored and has the given zip (0: none)
FirstZip(rows, zip) ==
    LET hit(k) == Usable(rows[k]) /\ RowZip(rows[k]) = zip IN
    IF \E k \in 1..Len(rows) : hit(k)
    THEN CHOOSE k \in 1..Len(rows) : hit(k) /\ \A j \in 1..(k - 1) : ~hit(j)
    ELSE 0

\* the link of the k-th of some entries (None for k = 0)
LinkAt(rows, k) == IF k = 0 THEN None ELSE LinkOf(rows[k])

\* C13: an entry without an anchor with an href, without a cell at the
\* address index, or with an address of fewer than two comma-separated parts
\* is passed over: the pass through the loop for it changes neither the best
\* match nor its priority and returns nothing, whatever the address says.
C13_UnusableRowsExcluded ==
    [][(loop.at = "for" /\ loop.i <= Len(loop.school_entries)
          /\ (\/ ~Entry.anchor
              \/ Entry.cells < 2
              \/ \A k \in 1..Len(Entry.addr) : Entry.addr[k] # ","))
       => loop' = [loop EXCEPT !.i = @ + 1]]_vars

C13_Witness ==
    /\ loop.at = "returned"
    /\ loop.ret = None
    /\ Len(loop.school_entries) = 3
    /\ ~loop.school_entries[1].anchor
    /\ loop.school_entries[2].cells = 1
    /\ loop.school_entries[3].addr = <<"Rome", " ", "GA", " ", "30039">>
    /\ loop.hints = [city |-> None, state |-> None, zip |-> <<"30039">>]

\* C14: with a zip hint only, the first entry whose zip equals the hint is
\* the best match, whatever entries without that zip come before it; with
\* all three hints an entry that matches by zip only is never taken, also
\* when it comes first: the loop returns the first entry that matches all
\* three, or None.
C14_ZipOnlyPreference ==
    LET h == loop.hints IN
    /\ (loop.at # "idle" /\ h.zip # None /\ h.city = None /\ h.state = None) =>
          /\ loop.best_match = LinkAt(Seen, FirstZip(Seen, h.zip))
          /\ loop.at = "returned" =>
                loop.ret = LinkAt(loop.school_entries,
                                  FirstZip(loop.school_entries, h.zip))
    /\ (loop.at # "idle" /\ h.zip # None /\ h.city # None /\ h.state # None) =>
          /\ loop.best_match = None
          /\ \A k \in 1..Len(Seen) :
                ~(/\ Usable(Seen[k])
                  /\ SameIgnoringCase(RowCity(Seen[k]), h.city)
                  /\ SameIgnoringCase(RowState(Seen[k]), h.state)
                  /\ RowZip(Seen[k]) = h.zip)
          /\ (loop.at = "returned" /\ loop.ret # None) =>
                /\ loop.ret = LinkOf(Entry)
                /\ Usable(Entry)
                /\ SameIgnoringCase(RowCity(Entry), h.city)
                /\ SameIgnoringCase(RowState(Entry), h.state)
                /\ RowZip(Entry) = h.zip

C14_Witness ==
    /\ loop.at = "returned"
    /\ loop.hints = [city |-> None, state |-> None, zip |-> <<"30039">>]
    /\ Len(loop.school_entries) = 3
    /\ RowZip(loop.school_entries[1]) = <<"30040">>
    /\ loop.school_entries[2].href = <<"e2">>
    /\ loop.school_entries[3].href = <<"e1">>
    /\ loop.ret = LinkOf(loop.school_entries[2])

\* C18 as stated: with state and zip but no city no entry ever becomes the
\* best match and the function returns None.
C18_Original ==
    (loop.at # "idle" /\ loop.hints.city = None
       /\ loop.hints.state # None /\ loop.hints.zip # None) =>
          /\ loop.best_match = None
          /\ loop.ret = None

\* C18: with state and zip but no city the zip rule applies and the state
\* hint is ignored: the best match is the first entry whose zip equals the
\* hint, held with priority 3, also when its state differs from the hint.
C18_StateAndZipScoredByZip ==
    LET h == loop.hints IN
    (loop.at # "idle" /\ h.city = None /\ h.state # None /\ h.zip # None) =>
        /\ loop.best_match = LinkAt(Seen, FirstZip(Seen, h.zip))
        /\ loop.best_priority = IF FirstZip(Seen, h.zip) = 0 THEN Inf ELSE 3
        /\ loop.at = "returned" =>
              loop.ret = LinkAt(loop.school_entries,
                                FirstZip(loop.school_entries, h.zip))

C18_Witness ==
    /\ loop.at = "returned"
    /\ loop.hints = [city |-> None, state |-> <<"ga">>, zip |-> <<"30039">>]
    /\ Len(loop.school_entries) = 2
    /\ loop.school_entries[1].href = <<"e3">>
    /\ loop.school_entries[2].href = <<"e1">>
    /\ loop.ret = LinkOf(loop.school_entries[1])

\* C19: one rule is active per call, chosen by the hints supplied alone, in
\* the order all-three, state+city (2), zip (3), city (4), state (5): the
\* best match is the first entry that matches under that rule, held with
\* the rule's ordinal, and hints the rule does not name play no part.
C19_OneRulePerCall ==
    LET h == loop.hints
        R == Rule(h)
        k == FirstMatch(Seen, h)
        n == FirstMatch(loop.school_entries, h)
    IN  loop.at # "idle" =>
          /\ R \in {0, 1} =>
                /\ loop.best_match = None
                /\ loop.best_priority = Inf
          /\ R = 1 => k = 0
          /\ R \in 2..5 =>
                /\ loop.best_match = LinkAt(Seen, k)
                /\ loop.best_priority = IF k = 0 THEN Inf ELSE R
          /\ loop.at = "returned" => loop.ret = LinkAt(loop.school_entries, n)

C19_Witness ==
    /\ loop.at = "returned"
    /\ loop.hints = [city |-> <<"rome">>, state |-> None, zip |-> <<"30039">>]
    /\ Len(loop.school_entries) = 2
    /\ loop.school_entries[1].href = <<"e2">>
    /\ loop.school_entries[2].href = <<"e1">>
    /\ loop.ret = LinkOf(loop.school_entries[1])

\* C20: the loop holds one best match at a time, None exactly while the
\* priority is still infinite; a pass through the loop replaces it only
\* together with a strictly lower priority ordinal, so an entry that matches
\* with the ordinal already held never replaces it.
C20_BestReplacedOnlyByStrictlyBetter ==
    /\ [](loop.at # "idle" =>
            /\ loop.best_match = None <=> loop.best_priority = Inf
            /\ loop.best_match # None =>
                  \E k \in 1..Len(Seen) : loop.best_match = LinkOf(Seen[k]))
    /\ [][(loop.at = "for" /\ loop'.best_match # loop.best_match)
            => loop'.best_priority < loop.best_priority]_vars
    /\ [][(loop.at = "for" /\ loop.best_match # None
             /\ loop.i <= Len(loop.school_entries))
            => loop'.best_match = loop.best_match]_vars

C20_Witness ==
    /\ loop.at = "for"
    /\ loop.i = 3
    /\ loop.hints = [city |-> <<"rome">>, state |-> None, zip |-> None]
    /\ loop.school_entries[1].href = <<"e1">>
    /\ loop.school_entries[2].href = <<"e3">>
    /\ loop.best_match = LinkOf(loop.school_entries[1])
    /\ loop.best_priority = 4

\* the positions of the digits of a text
DigitsAt(text) == {i \in 1..Len(text) : text[i] \in Digits}

RECURSIVE Power10(_)
Power10(n) == IF n = 0 THEN 1 ELSE 10 * Power10(n - 1)

\* the number written by the digits at the positions ps of a text, read in
\* their order
RECURSIVE Written(_, _)
Written(text, ps) ==
    IF ps = {} THEN 0
    ELSE LET p == CHOOSE q \in ps : \A r \in ps : q <= r IN
         DigitValue(text[p]) * Power10(Cardinality(ps) - 1)
            + Written(text, ps \ {p})

\* the positions of the first group of adjacent digits of a text
FirstGroup(text) ==
    {i \in DigitsAt(text) :
        \A j \in 1..i : j \in DigitsAt(text) \/ \A k \in 1..j : k \notin DigitsAt(text)}

\* C16: get_int returns the integer written by all the digits of the text
\* in their order, whatever stands between them, and None for a text
\* without a digit.
C16_AllDigitsInOrder ==
    gi.at = "returned" =>
        gi.ret = IF DigitsAt(gi.text) = {} THEN None
                 ELSE <<Written(gi.text, DigitsAt(gi.text))>>

C16_Witness ==
    /\ gi.at = "returned"
    /\ gi.text = <<"-", "7", "8", "9">>
    /\ gi.ret = <<789>>

\* C17: get_int returns the first integer of the text: of several groups of
\* digits the first one only.
C17_FirstIntegerOnly ==
    gi.at = "returned" =>
        gi.ret = IF DigitsAt(gi.text) = {} THEN None
                 ELSE <<Written(gi.text, FirstGroup(gi.text))>>

\* the caller of a call supplied no hint at all
NoHints(c) ==
    /\ pc[c] # "idle"
    /\ args[c].hints = [city |-> None, state |-> None, zip |-> None]

\* C21 as stated: a call without hints returns None after trying both
\* sources.
C21_Original ==
    \A c \in Callers :
        (NoHints(c) /\ pc[c] = "done") =>
            /\ result[c] = None
            /\ Attempts(c) = <<"public", "private">>

\* C21: without any hint no row is ever selected: every scan runs through
\* its whole page and goes on to the next page whenever there is one, no
\* detail page is fetched, and the call, unless a fetch fails, returns None
\* after the Public and then the Private source when it started on Public,
\* and after the Private source alone when it started on Private.
C21_NoHintsNoMatch ==
    \A c \in Callers :
        NoHints(c) =>
            /\ school_url[c] = None
            /\ pc[c] # "detail"
            /\ DetailFetches(c) = 0
            /\ ~early[c]
            /\ AfterScan(c) =>
                  /\ scanned[c] = cur[c].nrows
                  /\ pc[c] = "next" <=> cur[c].next
            /\ pc[c] = "raised" => ~log[c][Len(log[c])].ok
            /\ pc[c] = "done" =>
                  /\ result[c] = None
                  /\ Attempts(c) = IF startType[c] = "public"
                                   THEN <<"public", "private">>
                                   ELSE <<"private">>
                  /\ \A i \in DOMAIN log[c] : log[c][i].ok

C21_Witness ==
    \E c \in Callers :
        /\ NoHints(c)
        /\ pc[c] = "done"
        /\ startType[c] = "public"
        /\ Len(att[c]) = 2
        /\ att[c][1].usable
        /\ att[c][2].usable
        /\ pageNo[c] = 2
        /\ Len(log[c]) = 4

\* C22: whenever a call has returned an identifier, school_type is the
\* directory the identifier was found in: 'public' when the first attempt of
\* a call that started on Public found it, 'private' when the fallback
\* attempt found it or the call started on Private.
C22_TypeAtReturnIsSourceOfId ==
    \A c \in Callers :
        (pc[c] = "done" /\ result[c] # None) =>
            /\ school_type = LastAttempt(c).site
            /\ log[c][Len(log[c])].site = school_type
            /\ (startType[c] = "public" /\ Len(att[c]) = 1) =>
                  school_type = "public"
            /\ (startType[c] = "private" \/ Len(att[c]) = 2) =>
                  school_type = "private"

C22_Witness ==
    \E c \in Callers :
        /\ pc[c] = "done"
        /\ result[c] = <<"00704801">>
        /\ startType[c] = "public"
        /\ Len(att[c]) = 2
        /\ att[c][1].detail
        /\ school_type = "private"

\* C23: school_type changes only in the fallback step of a call, and only
\* from 'public' to 'private'; the fetches, the listing request, the scan
\* and the extraction leave it as it is.
C23_TypeChangesOnlyInFallback ==
    [][school_type' # school_type =>
         /\ school_type = "public"
         /\ school_type' = "private"
         /\ \E c \in Callers :
               /\ pc[c] = "fallback"
               /\ pc'[c] = "search"
               /\ flips'[c] = flips[c] + 1]_vars

C23_Witness ==
    \E c \in Callers :
        /\ pc[c] = "search"
        /\ flips[c] = 1
        /\ startType[c] = "public"
        /\ school_type = "private"
        /\ initType = "public"

\* C25: whenever a call has raised, school_type is what it was when the
\* call began.
C25_RaiseLeavesTypeUnchanged ==
    \A c \in Callers : pc[c] = "raised" => school_type = startType[c]

\* the hints of a call select one of the partial rules
PartialHints(c) == pc[c] # "idle" /\ Rule(args[c].hints) \in 2..5

\* C26: with partial hints (state+city, zip, city or state alone) every scan
\* runs through its whole page, and the link the scan ends with is that of
\* the first row matching the active rule on the earliest page that holds
\* a matching row; no later row and no later page changes it.
C26_PartialHintsFirstMatchOnEarliestPage ==
    \A c \in Callers :
        (PartialHints(c) /\ AfterScan(c)) =>
            LET a == LastAttempt(c) IN
            /\ ~early[c]
            /\ scanned[c] = cur[c].nrows
            /\ a.matchPage = 0 =>
                  /\ school_url[c] = None
                  /\ cur[c].idx = 0
            /\ a.matchPage # 0 =>
                  /\ a.matchPage = pageNo[c]
                  /\ pc[c] # "next"
                  /\ cur[c].idx # 0
                  /\ cur[c].match = a.match
                  /\ school_url[c] = BaseUrl(a.site) \o a.match

C26_Witness ==
    \E c \in Callers :
        /\ args[c].hints = [city |-> <<"rome">>, state |-> None, zip |-> None]
        /\ pc[c] = "detail"
        /\ pageNo[c] = 1
        /\ cur[c].nrows = 2
        /\ cur[c].idx = 1
        /\ school_url[c] = BaseUrl(school_type) \o <<"d1">>
        /\ cur[c].next

\* what the address of each entry that can be scored says, as written on the
\* page: "St, Rome, GA 30039", ..., "Rome, 30039" (one token after the last
\* comma), "St, Rome," (none)
Written27(row) ==
    CASE row.href = <<"e1">> ->
            [city |-> <<"Rome">>, state |-> <<"GA">>, zip |-> <<"30039">>]
      [] row.href = <<"e2">> ->
            [city |-> <<"Paris">>, state |-> <<"GA">>, zip |-> <<"30039">>]
      [] row.href = <<"e3">> ->
            [city |-> <<"Rome">>, state |-> <<"VA">>, zip |-> <<"30039">>]
      [] row.href = <<"e4">> ->
            [city |-> <<"Rome">>, state |-> <<"GA">>, zip |-> <<"30040">>]
      [] row.href = <<"e8">> ->
            [city |-> <<"Rome">>, state |-> <<>>, zip |-> <<"30039">>]
      [] row.href = <<"e9">> ->
            [city |-> <<"Rome">>, state |-> <<>>, zip |-> <<>>]

\* the entry is scored and what its address says fits the rule the hints
\* select
Fits27(row, h) ==
    /\ row.href \in {<<"e1">>, <<"e2">>, <<"e3">>, <<"e4">>, <<"e8">>, <<"e9">>}
    /\ Rule(h) # 0
    /\ Rule(h) \in {1, 2, 4} => Lower(Written27(row).city) = Lower(h.city)
    /\ Rule(h) \in {1, 2, 5} => Upper(Written27(row).state) = Upper(h.state)
    /\ Rule(h) \in {1, 3} => Written27(row).zip = h.zip

First27(rows, h) ==
    IF \E k \in 1..Len(rows) : Fits27(rows[k], h)
    THEN CHOOSE k \in 1..Len(rows) :
            Fits27(rows[k], h) /\ \A j \in 1..(k - 1) : ~Fits27(rows[j], h)
    ELSE 0

\* C27: the loop scores an entry by the city in the second-to-last comma
\* segment and the state and zip in the last two tokens of the last segment;
\* an entry with one token there counts as having that zip and no state, one
\* with no token as having neither, so that these are taken under the zip
\* or the city rule but never under a rule that names the state.
C27_AddressParsing ==
    LET h == loop.hints IN
    loop.at # "idle" =>
        /\ Rule(h) \in 2..5 => loop.best_match = LinkAt(Seen, First27(Seen, h))
        /\ loop.at = "returned" =>
              loop.ret = LinkAt(loop.school_entries,
                                First27(loop.school_entries, h))
        /\ Rule(h) \in {1, 2, 5} =>
              \A row \in Entries :
                  row.href \in {<<"e8">>, <<"e9">>} =>
                      /\ loop.best_match # LinkOf(row)
                      /\ loop.ret # LinkOf(row)

C27_Witness ==
    /\ loop.at = "returned"
    /\ loop.hints = [city |-> None, state |-> None, zip |-> <<"30039">>]
    /\ Len(loop.school_entries) = 3
    /\ loop.school_entries[1].href = <<"e9">>
    /\ loop.school_entries[2].href = <<"e8">>
    /\ loop.school_entries[3].href = <<"e1">>
    /\ loop.ret = LinkOf(loop.school_entries[2])

\* C28: the listing request target is built from the school name, with each
\* space replaced by '+', and the source type alone: City, State and Zip are
\* blank whatever hints the call was given, and the Public target carries
\* the four flags SchoolType=1..4 (the Private one a blank SchoolType).
C28_TargetFromNameAndTypeOnly ==
    \A c \in Callers : \A k \in 1..Len(att[c]) :
        LET t == att[c][k].target IN
        /\ args[c].name = <<"Shiloh", " ", "High">>
              => t.Name = <<"Shiloh", "+", "High">>
        /\ t.City = None /\ t.State = None /\ t.Zip = None
        /\ att[c][k].site = "public" =>
              t.base = "ccd/school_list.asp" /\ t.SchoolType = <<1, 2, 3, 4>>
        /\ att[c][k].site = "private" =>
              t.base = "pss/school_list.asp" /\ t.SchoolType = <<>>

C28_Witness ==
    \E c \in Callers :
        /\ AllThree(c)
        /\ Len(att[c]) = 2
        /\ att[c][1].site = "public"
        /\ att[c][1].target.SchoolType = <<1, 2, 3, 4>>
        /\ att[c][1].target.Zip = None
        /\ att[c][2].site = "private"
        /\ att[c][2].target.Name = <<"Shiloh", "+", "High">>

\* the three keys of the lunch figures, as the row's branch and the test name
\* them
LunchKeys ==
    {"Free lunch eligible", "Reduced lunch eligible",
     "Free/reduced total eligible"}

\* the lunch row is found with its three cells
RowPresent(soup) == soup.label /\ soup.row /\ Len(soup.columns) >= 3

\* C29: extract_lunch_eligibility returns a dictionary with the same three
\* keys whether or not the lunch row is in the document, with None for each
\* value when it is absent, so that extract_school_details yields the same
\* key set for every page.
C29_SameKeysWithOrWithoutRow ==
    (le.at = "returned" /\ ~le.lunch.raised) =>
        /\ DOMAIN le.lunch.value = LunchKeys
        /\ ~RowPresent(le.soup) =>
              \A k \in DOMAIN le.lunch.value : le.lunch.value[k] = None
        /\ DOMAIN le.details.value = OtherKeys \cup LunchKeys

C29_RowAbsent ==
    /\ le.at = "returned"
    /\ ~le.soup.label
    /\ ~le.lunch.raised
    /\ "Reduced-price lunch eligible" \in DOMAIN le.details.value

\* the call is between fetching a listing and leaving the attempt
MidAttempt(c) == pc[c] \in {"scan", "next", "detail"} /\ Len(att[c]) > 0

\* C24: with two calls inside get_nces_id on one instance, a call that has
\* fetched its listing from one directory can find self.school_type changed
\* under it, which happens by the fallback of the other call and no other
\* way, and it then builds the link of the row it selects on the base of the
\* type of that moment, not of the directory its listing came from.
C24_FlipSeenMidAttempt ==
    [][\A c \in Callers :
        /\ (MidAttempt(c) /\ LastAttempt(c).site = school_type
                /\ school_type' # school_type)
              => \E d \in Callers \ {c} :
                    pc[d] = "fallback" /\ pc'[d] = "search"
        /\ (pc[c] = "scan" /\ pc'[c] = "detail")
              => school_url'[c][1] = BaseUrl(school_type)[1]
        /\ (pc[c] = "scan" /\ pc'[c] = "next")
              => next_page_url'[c][1] = BaseUrl(school_type)[1]]_vars

C24_Witness ==
    /\ pc[MainCaller] = "detail"
    /\ flips[MainCaller] = 0
    /\ Len(att[MainCaller]) = 1
    /\ LastAttempt(MainCaller).site = "public"
    /\ school_type = "private"
    /\ school_url[MainCaller] = <<"pss/", "d1">>

====
